---- MODULE Spec2Model ----
(***************************************************************************)
(* The streaming audio session of the voicebot WebSocket server:           *)
(* the connection handler (src/index.ts, and the service branch of the     *)
(* server in src/helpers/speechToText.ts), the message protocol            *)
(* (src/handlers/messageHandler.ts), the mark/boundary coordinator         *)
(* (src/handlers/markHandler.ts), the asynchronous audio pipeline          *)
(* (src/handlers/audioHandler.ts) and the counters (utils/sequencing.ts).  *)
(*                                                                         *)
(* One step of the model is one run-to-completion turn of the Node event   *)
(* loop: a handler from its entry to its first await (or its return), or   *)
(* the continuation of a handler after the awaited collaborator settled.   *)
(***************************************************************************)
EXTENDS Integers, Sequences, FiniteSets, TLC

(* ----------------------------- bounds --------------------------------- *)
\* sockets that ever connect to /voicebot
MaxSockets == 3
\* cap of the sequence counter: the steps stop taking input once the counter,
\* plus one number for every suspended continuation, would pass it
MaxSeq == 5
\* valid media events received in one run
MaxChunks == 2
\* number of browser connections
MaxBrowsers == 2
\* longest PCM buffer handed to the audio utilities
MaxPcmLen == 5
\* named mark events handled in one run
MaxMarks == 2
\* asynchronous continuations (greeting lookups, AI pipelines) in flight
MaxTasks == MaxMarks
\* cap of the sequence counter in the runs that pile up pending marks (two
\* pipeline replies and a clear take three numbers more)
MaxSeqLong == MaxSeq + 3
(* ------------------------ program constants --------------------------- *)
\* code of the "Another call is in progress" error
CodeBusy == 1003
\* code of the "Failed to process audio" error
CodePipeline == 1002
\* code of the "Unknown event type" error
CodeUnknown == 1000
\* code of the "Failed to process message" error
CodeMessage == 1004
\* code of the "Invalid authentication token" error
CodeAuth == 1001
\* code of the "No active service connection available" error
CodeNoService == 1004
\* the browser token the server was configured with, and what a connection
\* request can carry in its place
AUTH_TOKEN == "secret"
Tokens == {"none", "wrong", AUTH_TOKEN}

Sockets == 1..MaxSockets
\* streamSid values a start event may carry; 0 stands for null / absent
StreamSids == {1, 2}
\* media.chunk values a media event may carry
ChunkIdx == {0, 1}
Browsers == 1..MaxBrowsers

VARIABLES
  server,       \* which server module runs: "index" or "service"
  seqCap,       \* the cap of the sequence counter in this run
  readyState,   \* ws.readyState of every socket ("NONE" before it connects)
  accepted,     \* sockets whose message/close/error handlers are attached
  clientState,  \* the shared ConnectionState record
  tasks,        \* suspended async continuations, in the order they started
  received,     \* history: number of media events buffered so far
  unindexed,    \* history: the buffered media events without a chunk index
  markCount,    \* history: number of processMarkEvent calls so far
  timesHanded,  \* history: how often each chunk was handed to the pipeline
  lastIssued,   \* history: last sequence number issued since the last reset
  lastSent,     \* history: last sequence number sent since the last reset
  afterStop,    \* history: "none" before any stop, "armed" once a stop was
                \* handled, "first"/"later" after one/more numbers issued since
  issued,       \* the sequence numbers the last step issued, in order
  sent,         \* the messages the last step put on open sockets, in order
  broadcast,    \* the messages the last step handed to broadcastToBrowsers
  browserSockets,     \* per browser socket: its readyState and the token of
                      \* its connection request
  browserConnections, \* the global map: browser id -> its ConnectionState
  browserInbox, \* history: per browser socket, the messages the server put on
                \* it while it was open
  audioCall     \* the last call of an audio utility: its name, its arguments
                \* and what it returned

vars == <<server, seqCap, readyState, accepted, clientState, tasks, received,
          unindexed, markCount, timesHanded, lastIssued, lastSent, afterStop, issued, sent,
          broadcast, browserSockets, browserConnections, browserInbox, audioCall>>

browserVars == <<browserSockets, browserConnections, browserInbox>>

(* --------------------------- sequencing ------------------------------- *)
\* getNextSequenceNumber without the increment
getNextSequenceNumberNoInc(st) ==
  [value |-> st.sequenceNumber, state |-> st]

\* returns the current sequence number and increments the counter
getNextSequenceNumber(st) ==
  [value |-> st.sequenceNumber,
   state |-> [st EXCEPT !.sequenceNumber = @ + 1]]

\* returns the current media chunk number and increments the counter
getNextMediaChunk(st) ==
  [value |-> st.mediaChunkCounter,
   state |-> [st EXCEPT !.mediaChunkCounter = @ + 1]]

\* resetCounters that leaves the sequence counter alone
resetCountersChunkOnly(st) ==
  [st EXCEPT !.mediaChunkCounter = 1]

\* resetCounters that leaves the chunk counter alone
resetCountersSequenceOnly(st) ==
  [st EXCEPT !.sequenceNumber = 1]

\* resets the sequence and chunk counters to their initial values
resetCounters(st) ==
  [st EXCEPT !.sequenceNumber = 1, !.mediaChunkCounter = 1]

(* ---------------------------- messages -------------------------------- *)
\* a message put on a socket; seq = 0: no sequenceNumber field; sid = 0: the
\* streamSid field is null/undefined; origin: the handler that sent it;
\* captured: the streamSid of the session when origin's work began
Msg(to, event, seq, sid, code, name, origin, captured) ==
  [to |-> to, event |-> event, seq |-> seq, sid |-> sid, code |-> code,
   name |-> name, origin |-> origin, captured |-> captured]

\* the value a handler returns to the step that runs it
Result(st, msgs, spawn, stamps) ==
  [st |-> st, out |-> msgs, spawn |-> spawn, issued |-> stamps, cast |-> <<>>]

\* res with msgs handed to broadcastToBrowsers (to = 0: every open browser
\* connection of the global map)
WithBroadcast(res, msgs) == [res EXCEPT !.cast = msgs]

(* ----------------------- mark/boundary coordinator --------------------- *)
\* a buffered chunk: id is its arrival number (it stands for the payload
\* bytes), chunk the index the media event carried, epoch the number of marks
\* handled before it arrived
Chunk(id, idx, epoch) == [id |-> id, chunk |-> idx, epoch |-> epoch]

\* c put into the sorted sequence behind every element whose index is not
\* larger than its own
InsertByChunk(c, sorted) ==
  LET n == Cardinality({i \in 1..Len(sorted) : sorted[i].chunk <= c.chunk})
  IN SubSeq(sorted, 1, n) \o <<c>> \o SubSeq(sorted, n + 1, Len(sorted))

RECURSIVE SortByChunk(_)
\* chunks.sort((a, b) => a.chunk - b.chunk): ascending index, stable
SortByChunk(chunks) ==
  IF chunks = <<>> THEN <<>>
  ELSE InsertByChunk(chunks[Len(chunks)],
                     SortByChunk(SubSeq(chunks, 1, Len(chunks) - 1)))

\* combineAudioChunks that loses the last buffered chunk
combineAudioChunksDropLast(chunks) ==
  SortByChunk(SubSeq(chunks, 1, Len(chunks) - 1))

\* combineAudioChunks without the sort: the payloads in arrival order
combineAudioChunksInArrivalOrder(chunks) == chunks

\* the concatenation of the decoded payloads in ascending chunk order
combineAudioChunks(chunks) == SortByChunk(chunks)

\* the buffer is left as it is after the handoff
ClearBufferNever(chunks) == chunks

\* "state.mediaChunks = []" after the handoff
ClearBuffer(chunks) == <<>>

\* a suspended continuation: kind "greeting" (handleStart awaiting the
\* contact lookup) or "audio" (handleAudioProcessing awaiting
\* processAudioWithAI); sock is the socket the handler was called with, sid
\* the session's streamSid when it started, mark the number of the mark that
\* started it and audio the buffer it decoded from the consolidated payload
Task(kind, sock, sid, mark, audio) ==
  [kind |-> kind, sock |-> sock, sid |-> sid, mark |-> mark, audio |-> audio]

\* addPendingMark that puts the new mark in front of the list
addPendingMarkInFront(st, markName) ==
  [st EXCEPT !.pendingMarks = <<markName>> \o @]

\* MarkHandler.addPendingMark
addPendingMark(st, markName) ==
  [st EXCEPT !.pendingMarks = Append(@, markName)]

\* the mark is broadcast only when a payload was consolidated
MarkBroadcastIfConsolidated(st, mark, consolidated) ==
  IF consolidated
  THEN << Msg(0, "mark", 0, st.streamSid, 0, mark, "mark", st.streamSid) >>
  ELSE <<>>

\* the mark message processMarkEvent broadcasts at its end
MarkBroadcast(st, mark, consolidated) ==
  << Msg(0, "mark", 0, st.streamSid, 0, mark, "mark", st.streamSid) >>

\* MarkHandler.processMarkEvent up to its return; mark is the number of this
\* call (it stands for the mark's name).  The consolidated media and the mark
\* go to the browsers only.
processMarkEvent(sock, st, mark) ==
  IF Len(st.mediaChunks) > 0
  THEN LET n == getNextSequenceNumber(st)
           payload == combineAudioChunks(st.mediaChunks)
       IN WithBroadcast(
            Result([n.state EXCEPT !.mediaChunks = ClearBuffer(@)],
                   <<>>,
                   <<Task("audio", sock, st.streamSid, mark, payload)>>,
                   <<n.value>>),
            << Msg(0, "media", n.value, st.streamSid, 0, 0, "mark", st.streamSid) >>
              \o MarkBroadcast(st, mark, TRUE))
  ELSE WithBroadcast(Result(st, <<>>, <<>>, <<>>), MarkBroadcast(st, mark, FALSE))

(* --------------------------- audio pipeline --------------------------- *)
\* handleAudioProcessing whose catch block only logs the failure
handleAudioProcessingSilent(t, st, ok) ==
  IF ok
  THEN LET n == getNextSequenceNumber(st)
           c == getNextMediaChunk(n.state)
       IN WithBroadcast(
            Result(addPendingMark(c.state, t.mark),
                   << Msg(t.sock, "media", n.value, st.streamSid, 0, 0, "audio", t.sid),
                      Msg(t.sock, "mark", 0, st.streamSid, 0, t.mark, "audio", t.sid) >>,
                   <<>>,
                   <<n.value>>),
            << Msg(0, "media", n.value, st.streamSid, 0, 0, "audio", t.sid),
               Msg(0, "mark", 0, st.streamSid, 0, t.mark, "audio", t.sid) >>)
  ELSE Result(st, <<>>, <<>>, <<>>)

\* handleAudioProcessing that drops the outcome of a pipeline whose stream is
\* no longer the session's
handleAudioProcessingGuarded(t, st, ok) ==
  IF st.streamSid # t.sid THEN Result(st, <<>>, <<>>, <<>>)
  ELSE IF ok
  THEN LET n == getNextSequenceNumber(st)
           c == getNextMediaChunk(n.state)
       IN WithBroadcast(
            Result(addPendingMark(c.state, t.mark),
                   << Msg(t.sock, "media", n.value, st.streamSid, 0, 0, "audio", t.sid),
                      Msg(t.sock, "mark", 0, st.streamSid, 0, t.mark, "audio", t.sid) >>,
                   <<>>,
                   <<n.value>>),
            << Msg(0, "media", n.value, st.streamSid, 0, 0, "audio", t.sid),
               Msg(0, "mark", 0, st.streamSid, 0, t.mark, "audio", t.sid) >>)
  ELSE LET n == getNextSequenceNumber(st)
       IN Result(n.state,
                 << Msg(t.sock, "error", n.value, st.streamSid, CodePipeline, 0, "audio", t.sid) >>,
                 <<>>,
                 <<n.value>>)

\* handleAudioProcessing that sends the mark ahead of the media reply
handleAudioProcessingMarkFirst(t, st, ok) ==
  IF ok
  THEN LET n == getNextSequenceNumber(st)
           c == getNextMediaChunk(n.state)
       IN WithBroadcast(
            Result(addPendingMark(c.state, t.mark),
                   << Msg(t.sock, "mark", 0, st.streamSid, 0, t.mark, "audio", t.sid),
                      Msg(t.sock, "media", n.value, st.streamSid, 0, 0, "audio", t.sid) >>,
                   <<>>,
                   <<n.value>>),
            << Msg(0, "mark", 0, st.streamSid, 0, t.mark, "audio", t.sid),
               Msg(0, "media", n.value, st.streamSid, 0, 0, "audio", t.sid) >>)
  ELSE LET n == getNextSequenceNumber(st)
       IN Result(n.state,
                 << Msg(t.sock, "error", n.value, st.streamSid, CodePipeline, 0, "audio", t.sid) >>,
                 <<>>,
                 <<n.value>>)

\* handleAudioProcessing after processAudioWithAI settled: ok = it resolved,
\* ~ok = transcription, chat completion or text-to-speech threw
handleAudioProcessing(t, st, ok) ==
  IF ok
  THEN LET n == getNextSequenceNumber(st)
           c == getNextMediaChunk(n.state)
       IN WithBroadcast(
            Result(addPendingMark(c.state, t.mark),
                   << Msg(t.sock, "media", n.value, st.streamSid, 0, 0, "audio", t.sid),
                      Msg(t.sock, "mark", 0, st.streamSid, 0, t.mark, "audio", t.sid) >>,
                   <<>>,
                   <<n.value>>),
            << Msg(0, "media", n.value, st.streamSid, 0, 0, "audio", t.sid),
               Msg(0, "mark", 0, st.streamSid, 0, t.mark, "audio", t.sid) >>)
  ELSE LET n == getNextSequenceNumber(st)
       IN Result(n.state,
                 << Msg(t.sock, "error", n.value, st.streamSid, CodePipeline, 0, "audio", t.sid) >>,
                 <<>>,
                 <<n.value>>)

(* -------------------------- message protocol -------------------------- *)
\* MessageHandler.handleConnected
handleConnected(sock, st) ==
  LET n == getNextSequenceNumber(st)
  IN Result(n.state,
            << Msg(sock, "connected", n.value, 0, 0, 0, "connected", st.streamSid) >>,
            <<>>,
            <<n.value>>)

\* MessageHandler.handleStart up to "await DatabaseConnection.getConnection()";
\* sid is data.streamSid, 0 when the event carries none
handleStart(sock, st, sid) ==
  LET st1 == [st EXCEPT !.streamSid = sid]
      n == getNextSequenceNumber(st1)
  IN WithBroadcast(
       Result(n.state, <<>>, <<Task("greeting", sock, 0, 0, <<>>)>>, <<n.value>>),
       << Msg(0, "start", 0, sid, 0, 0, "start", sid),
          Msg(0, "media", n.value, sid, 0, 0, "start", sid) >>)

\* MessageHandler.handleStart after the greeting lookup settled
handleStartResume(t, st) ==
  LET n == getNextSequenceNumber(st)
  IN Result(n.state,
            << Msg(t.sock, "media", n.value, st.streamSid, 0, 0, "greeting", 0),
               Msg(t.sock, "mark", 0, st.streamSid, 0, 0, "greeting", 0) >>,
            <<>>,
            <<n.value>>)

\* handleMedia that refuses to buffer while a continuation is suspended
BufferableWhenIdle(valid, inFlight) == valid /\ inFlight = 0

\* the guard of handleMedia: validation.valid, whatever is in flight
Bufferable(valid, inFlight) == valid

\* "data.media.chunk" of a media event: absent, or one chunk index
NoChunk == <<>>

ChunkFields == {NoChunk} \cup {<<idx>> : idx \in ChunkIdx}

\* "data.media.chunk || 0" with an index that is one when the field is absent
chunkOrOne(field) == IF field = NoChunk THEN 1 ELSE field[1]

\* "data.media.chunk || 0"
chunkOrZero(field) == IF field = NoChunk THEN 0 ELSE field[1]

\* MessageHandler.handleMedia; valid is validateMediaFormat(data).valid, idx is
\* "data.media.chunk || 0", id and epoch identify the chunk
handleMedia(st, valid, idx, id, epoch, inFlight) ==
  IF ~Bufferable(valid, inFlight)
  THEN Result(st, <<>>, <<>>, <<>>)
  ELSE Result([st EXCEPT !.mediaChunks = Append(@, Chunk(id, idx, epoch))],
              <<>>, <<>>, <<>>)

\* handleStop that leaves the pending marks in place
handleStopKeepMarks(sock, st) ==
  LET n == getNextSequenceNumber(st)
  IN WithBroadcast(
       Result(resetCounters([n.state EXCEPT !.streamSid = 0]),
              << Msg(sock, "stop", n.value, st.streamSid, 0, 0, "stop", st.streamSid) >>,
              <<>>,
              <<n.value>>),
       << Msg(0, "stop", 0, 0, 0, 0, "stop", st.streamSid) >>)

\* MessageHandler.handleStop
handleStop(sock, st) ==
  LET n == getNextSequenceNumber(st)
  IN WithBroadcast(
       Result(resetCounters([n.state EXCEPT !.streamSid = 0, !.pendingMarks = <<>>]),
              << Msg(sock, "stop", n.value, st.streamSid, 0, 0, "stop", st.streamSid) >>,
              <<>>,
              <<n.value>>),
       << Msg(0, "stop", 0, 0, 0, 0, "stop", st.streamSid) >>)

\* sendAllPendingMarks that sends the newest pending mark first
sendAllPendingMarksNewestFirst(sock, st) ==
  [i \in 1..Len(st.pendingMarks) |->
     Msg(sock, "mark", 0, st.streamSid, 0,
         st.pendingMarks[Len(st.pendingMarks) + 1 - i], "clear", st.streamSid)]

\* MarkHandler.sendAllPendingMarks: one mark message per pending mark, in
\* the order of the list
sendAllPendingMarks(sock, st) ==
  [i \in 1..Len(st.pendingMarks) |->
     Msg(sock, "mark", 0, st.streamSid, 0, st.pendingMarks[i], "clear", st.streamSid)]

\* MessageHandler.handleClear
handleClear(sock, st) ==
  IF st.streamSid = 0
  THEN Result(st, <<>>, <<>>, <<>>)
  ELSE LET n == getNextSequenceNumber([st EXCEPT !.pendingMarks = <<>>])
       IN Result(n.state,
                 sendAllPendingMarks(sock, st)
                   \o << Msg(sock, "clear", n.value, st.streamSid, 0, 0, "clear", st.streamSid) >>,
                 <<>>,
                 <<n.value>>)

\* MessageHandler.handleDtmf
handleDtmf(sock, st) ==
  LET n == getNextSequenceNumber(st)
  IN Result(n.state,
            << Msg(sock, "dtmf", n.value, st.streamSid, 0, 0, "dtmf", st.streamSid) >>,
            <<>>,
            <<n.value>>)

\* sendError that also ends the stream
sendErrorEndingStream(sock, st, code) ==
  LET n == getNextSequenceNumber(st)
  IN Result([n.state EXCEPT !.streamSid = 0], <<>>, <<>>, <<n.value>>)

\* MessageHandler.sendError: the message is built (and stamped) and logged
\* but not put on the socket
sendError(sock, st, code) ==
  LET n == getNextSequenceNumber(st)
  IN Result(n.state, <<>>, <<>>, <<n.value>>)

(* ------------------------- connection handler ------------------------- *)
\* "clientState.socket && clientState.socket.readyState === WebSocket.OPEN"
SingleClientBusy(st, rs) == st.socket # 0 /\ rs[st.socket] = "OPEN"

\* the connection handler with the initialisation moved above the check
onConnectionInitFirst(sock, st, busy) ==
  [resetCounters([st EXCEPT !.socket = sock]) EXCEPT !.pendingMarks = <<>>]

\* the session after wss.on('connection') ran for sock: untouched when the
\* connection is refused, initialised for sock otherwise
onConnection(sock, st, busy) ==
  IF busy THEN st
  ELSE [resetCounters([st EXCEPT !.socket = sock]) EXCEPT !.pendingMarks = <<>>]

\* a close handler that also resets the counters
onCloseResetting(srv, st) ==
  resetCounters([st EXCEPT !.socket = 0, !.streamSid = 0, !.pendingMarks = <<>>])

\* ws.on('close') of an accepted socket
onClose(srv, st) ==
  IF srv = "index"
  THEN [st EXCEPT !.socket = 0, !.streamSid = 0, !.pendingMarks = <<>>]
  ELSE [st EXCEPT !.socket = 0]

\* ws.on('error') of an accepted socket
onError(srv, st) ==
  IF srv = "index" THEN st ELSE [st EXCEPT !.socket = 0]

(* --------------------------- audio utilities -------------------------- *)
\* the values of an Int16Array element
Int16Bits == 16
Samples == -(2 ^ (Int16Bits - 1)) .. (2 ^ (Int16Bits - 1) - 1)

\* the store into an Int16Array element: the value modulo 2^16, signed
ToInt16(n) ==
  ((n + 2 ^ (Int16Bits - 1)) % (2 ^ Int16Bits)) - 2 ^ (Int16Bits - 1)

\* the sample values the buffers of a run are made of
PcmValues == {-32768, -1, 0, 1000, 32767}

\* the sample rates a run passes to createWavFromPCM
Rates == {8000, 16000}

Min(a, b) == IF a < b THEN a ELSE b
Abs(a) == IF a < 0 THEN -a ELSE a

RECURSIVE MuLawSegment(_, _)
\* the loop of linearToMuLaw: "while (tempSample > 33 * 2) { segment++;
\* tempSample >>= 1; if (segment >= 7) break; }"
MuLawSegment(tempSample, segment) ==
  IF tempSample > 33 * 2
  THEN IF segment + 1 >= 7 THEN segment + 1
       ELSE MuLawSegment(tempSample \div 2, segment + 1)
  ELSE segment

\* linearToMuLaw: the mu-law byte the encoder makes of a sample
linearToMuLaw(x) ==
  LET sign == IF x < 0 THEN 128 ELSE 0
      sample == Min(Abs(x) + 33, 32767)
      segment == IF sample > 33 THEN MuLawSegment(sample, 0) ELSE 0
      position == IF sample > 33
                  THEN (sample \div 2 ^ (segment + 3)) % 16
                  ELSE (sample - 33) \div 8
  IN 255 - (sign + segment * 16 + position)

\* muLawToLinear: ulawToPCM of the g711 package, the G.711 expansion of one
\* mu-law byte to a 16-bit sample
muLawToLinear(muLawByte) ==
  LET u == 255 - muLawByte
      t == (((u % 16) * 8) + 132) * 2 ^ ((u % 128) \div 16)
  IN IF u >= 128 THEN 132 - t ELSE t - 132

\* Math.round(a0*mu^3 + a1*mu^2 + a2*mu + a3) at mu = 0.5
cubicInterpolate(y0, y1, y2, y3) ==
  LET a0 == y3 - y2 - y0 + y1
      a1 == y0 - y1 - a0
      a2 == y2 - y0
      a3 == y1
  IN (a0 + 2 * a1 + 4 * a2 + 8 * a3 + 4) \div 8

\* pcmData with pcmData[0] three times in front and its last sample three
\* times behind
extendedPcm(pcm) ==
  [k \in 1..(Len(pcm) + 6) |->
     IF k <= 3 THEN pcm[1]
     ELSE IF k <= Len(pcm) + 3 THEN pcm[k - 3]
     ELSE pcm[Len(pcm)]]

\* upsampleTo16k that puts the interpolated sample first
upsampleTo16kInterpolatedFirst(pcm) ==
  [k \in 1..(2 * Len(pcm)) |->
     IF k % 2 = 0 THEN pcm[k \div 2]
     ELSE IF k = 1 THEN 0
     ELSE ToInt16((pcm[(k - 1) \div 2] + pcm[(k + 1) \div 2]) \div 2)]

\* upsampleTo16k; element k of the result is element k - 1 of the Int16Array
upsampleTo16k(pcm) ==
  IF Len(pcm) < 4
  THEN [k \in 1..(2 * Len(pcm)) |-> pcm[(k + 1) \div 2]]
  ELSE LET ext == extendedPcm(pcm)
       IN [k \in 1..(2 * Len(pcm)) |->
             IF k % 2 = 1 THEN pcm[(k + 1) \div 2]
             ELSE IF k = 2 * Len(pcm) THEN pcm[Len(pcm)]
             ELSE LET i == (k - 2) \div 2
                  IN ToInt16(cubicInterpolate(ext[i + 3], ext[i + 4],
                                              ext[i + 5], ext[i + 6]))]

\* applyNoiseReduction returns its argument when it has fewer samples
NoiseReductionMinSamples == 100

\* the early return of applyNoiseReduction: "pcmSamples.length < 100"
applyNoiseReductionShort(pcm) == pcm

\* the Float32 samples a run passes to convertToStreamCompatibleAudio
FloatValues == {-1, 0, 1}

\* convertToStreamCompatibleAudio with originalSampleRate equal to
\* targetSampleRate: no resampling, every sample clamped, scaled by 32767
\* and encoded; an empty input gives an empty Buffer
convertToStreamCompatibleAudio(pcm) ==
  IF Len(pcm) = 0 THEN <<>>
  ELSE [k \in 1..Len(pcm) |-> linearToMuLaw(pcm[k] * 32767)]

\* DataView.setUint32 / setUint16 with littleEndian = true
SetUint32(v) ==
  << v % 256, (v \div 256) % 256, (v \div 65536) % 256, (v \div 16777216) % 256 >>
SetUint16(v) == << v % 256, (v \div 256) % 256 >>
\* DataView.setInt16 with littleEndian = true: two's complement
SetInt16(v) == SetUint16((v + 65536) % 65536)

RECURSIVE WritePcm(_)
\* the loop that writes the samples behind the header
WritePcm(pcm) ==
  IF pcm = <<>> THEN <<>>
  ELSE SetInt16(pcm[1]) \o WritePcm(SubSeq(pcm, 2, Len(pcm)))

\* the 44 header bytes for a data chunk of dataSize bytes
WavHeader(sampleRate, dataSize) ==
  LET numChannels == 1
      bitsPerSample == 16
      blockAlign == numChannels * (bitsPerSample \div 8)
      byteRate == sampleRate * blockAlign
  IN << 82, 73, 70, 70 >> \o SetUint32(36 + dataSize) \o << 87, 65, 86, 69 >>
       \o << 102, 109, 116, 32 >> \o SetUint32(16) \o SetUint16(1)
       \o SetUint16(numChannels) \o SetUint32(sampleRate) \o SetUint32(byteRate)
       \o SetUint16(blockAlign) \o SetUint16(bitsPerSample)
       \o << 100, 97, 116, 97 >> \o SetUint32(dataSize)

\* createWavFromPCM: the bytes of the returned Buffer
createWavFromPCM(pcm, sampleRate) ==
  IF Len(pcm) = 0 THEN [k \in 1..44 |-> 0]
  ELSE WavHeader(sampleRate, Len(pcm) * 2) \o WritePcm(pcm)

(* ------------------------------- Init --------------------------------- *)
InitUpTo(cap) ==
  /\ server \in {"index", "service"}
  /\ seqCap = cap
  /\ readyState = [s \in Sockets |-> "NONE"]
  /\ accepted = {}
  /\ clientState = [socket |-> 0, streamSid |-> 0, sequenceNumber |-> 1,
                    mediaChunkCounter |-> 1, pendingMarks |-> <<>>,
                    mediaChunks |-> <<>>]
  /\ tasks = <<>>
  /\ received = 0
  /\ unindexed = {}
  /\ markCount = 0
  /\ timesHanded = [id \in 1..MaxChunks |-> 0]
  /\ lastIssued = 0
  /\ lastSent = 0
  /\ afterStop = "none"
  /\ issued = <<>>
  /\ sent = <<>>
  /\ broadcast = <<>>
  /\ browserSockets = [b \in Browsers |-> [readyState |-> "NONE", token |-> "none"]]
  /\ browserConnections = <<>>
  /\ browserInbox = [b \in Browsers |-> {}]
  /\ audioCall = [step |-> "idle", pcm |-> <<>>, rate |-> 0, out |-> <<>>]

Init == InitUpTo(MaxSeq)

\* the state after src/index.ts was loaded
InitIndex == Init /\ server = "index"

\* the state after the server of src/helpers/speechToText.ts was loaded
InitService == Init /\ server = "service"

\* the same state in a run with the longer cap
InitLong == InitUpTo(MaxSeqLong) /\ server = "index"

(* ----------------------------- the steps ------------------------------ *)
\* socket.send delivers only while the socket is OPEN
Delivered(msgs) == SelectSeq(msgs, LAMBDA m : readyState[m.to] = "OPEN")

Stamped(msgs) == SelectSeq(msgs, LAMBDA m : m.seq # 0)

\* how often chunk id occurs in the buffers of the continuations in spawn
Occurrences(id, spawn) ==
  IF spawn = <<>> THEN 0
  ELSE Cardinality({i \in 1..Len(spawn[1].audio) : spawn[1].audio[i].id = id})

\* what a browser sees of a message
Note(m) == [event |-> m.event, code |-> m.code]

\* the inboxes after msgs went through broadcastToBrowsers: every connection
\* of the map whose socket is OPEN receives each of them
broadcastToBrowsers(msgs) ==
  [b \in Browsers |->
     IF b \in DOMAIN browserConnections /\ browserSockets[b].readyState = "OPEN"
     THEN browserInbox[b] \cup {Note(msgs[i]) : i \in 1..Len(msgs)}
     ELSE browserInbox[b]]

\* the forwarding condition without start and stop
ForwardedMediaOnly(event) ==
  /\ server = "service"
  /\ event = "media"
  /\ \E b \in DOMAIN browserConnections :
       browserConnections[b].isHandlingCommunications

\* "browserHandlingCommunications && (media | start | stop) &&
\* state.type === ConnectionType.SERVICE": the event is only broadcast
Forwarded(event) ==
  /\ server = "service"
  /\ event \in {"media", "start", "stop"}
  /\ \E b \in DOMAIN browserConnections :
       browserConnections[b].isHandlingCommunications

\* handleMessage returning after it broadcast the inbound event
forwardEvent(st, event, sid) ==
  WithBroadcast(Result(st, <<>>, <<>>, <<>>),
                << Msg(0, event, 0, sid, 0, 0, "forward", 0) >>)

LastOf(seq, default) == IF seq = <<>> THEN default ELSE seq[Len(seq)]

\* one handler turn: res is what the handler returned, rest the continuations
\* that stay suspended, reset whether the turn reset the counters
Turn(op, res, rest, reset) ==
  /\ res.st.sequenceNumber + Len(rest) + Len(res.spawn) <= seqCap
  /\ Len(rest) + Len(res.spawn) <= MaxTasks
  /\ clientState' = res.st
  /\ tasks' = rest \o res.spawn
  /\ sent' = Delivered(res.out)
  /\ broadcast' = res.cast
  /\ browserInbox' = broadcastToBrowsers(res.cast)
  /\ UNCHANGED <<browserSockets, browserConnections, audioCall>>
  /\ lastIssued' = IF reset THEN 0 ELSE LastOf(res.issued, lastIssued)
  /\ lastSent' = IF reset THEN 0
                 ELSE LastOf(Stamped(Delivered(res.out)), [seq |-> lastSent]).seq
  /\ issued' = res.issued
  /\ afterStop' = IF op = "stop" THEN "armed"
                  ELSE IF res.issued = <<>> THEN afterStop
                  ELSE IF afterStop = "armed" THEN "first"
                  ELSE IF afterStop = "first" THEN "later"
                  ELSE afterStop
  /\ timesHanded' = [id \in 1..MaxChunks |->
                        timesHanded[id] + Occurrences(id, res.spawn)]

Live(s) == s \in accepted /\ readyState[s] = "OPEN"

\* a new socket reaches wss.on('connection')
Connect(s) ==
  /\ readyState[s] = "NONE"
  /\ \A r \in Sockets : r < s => readyState[r] # "NONE"
  /\ LET busy == SingleClientBusy(clientState, readyState)
     IN /\ readyState' = [readyState EXCEPT ![s] = IF busy THEN "CLOSING" ELSE "OPEN"]
        /\ accepted' = IF busy THEN accepted ELSE accepted \cup {s}
        /\ clientState' = onConnection(s, clientState, busy)
        /\ sent' = IF busy
                  THEN << Msg(s, "error", 0, 0, CodeBusy, 0, "connection", 0) >>
                  ELSE <<>>
        /\ lastIssued' = IF busy THEN lastIssued ELSE 0
        /\ lastSent' = IF busy THEN lastSent ELSE 0
  /\ issued' = <<>>
  /\ broadcast' = <<>>
  /\ UNCHANGED <<server, seqCap, tasks, received, unindexed, markCount, timesHanded, afterStop>>
  /\ UNCHANGED <<browserVars, audioCall>>

\* the peer's close frame (or the end of its TCP stream) arrives: the socket
\* leaves OPEN; its 'close' event is emitted in a later turn
PeerClose(s) ==
  /\ Live(s)
  /\ readyState' = [readyState EXCEPT ![s] = "CLOSING"]
  /\ sent' = <<>>
  /\ issued' = <<>>
  /\ broadcast' = <<>>
  /\ UNCHANGED <<server, seqCap, accepted, clientState, tasks, received, unindexed, markCount,
                 timesHanded, lastIssued, lastSent, afterStop>>
  /\ UNCHANGED <<browserVars, audioCall>>

\* the socket fails: ws sets it CLOSING and emits 'error'
SocketError(s) ==
  /\ Live(s)
  /\ readyState' = [readyState EXCEPT ![s] = "CLOSING"]
  /\ clientState' = onError(server, clientState)
  /\ sent' = <<>>
  /\ issued' = <<>>
  /\ broadcast' = <<>>
  /\ UNCHANGED <<server, seqCap, accepted, tasks, received, unindexed, markCount, timesHanded,
                 lastIssued, lastSent, afterStop>>
  /\ UNCHANGED <<browserVars, audioCall>>

\* the 'close' event of a socket is emitted
CloseEvent(s) ==
  /\ readyState[s] = "CLOSING"
  /\ readyState' = [readyState EXCEPT ![s] = "CLOSED"]
  /\ clientState' = IF s \in accepted THEN onClose(server, clientState)
                    ELSE clientState
  /\ sent' = <<>>
  /\ issued' = <<>>
  /\ broadcast' = <<>>
  /\ UNCHANGED <<server, seqCap, accepted, tasks, received, unindexed, markCount, timesHanded,
                 lastIssued, lastSent, afterStop>>
  /\ UNCHANGED <<browserVars, audioCall>>

EvConnected(s) ==
  /\ Live(s)
  /\ Turn("connected", handleConnected(s, clientState), tasks, FALSE)
  /\ UNCHANGED <<server, seqCap, readyState, accepted, received, unindexed, markCount>>

EvStart(s, sid) ==
  /\ Live(s)
  /\ IF Forwarded("start")
     THEN Turn("forward", forwardEvent(clientState, "start", sid), tasks, FALSE)
     ELSE Turn("start", handleStart(s, clientState, sid), tasks, FALSE)
  /\ UNCHANGED <<server, seqCap, readyState, accepted, received, unindexed, markCount>>

\* a media event whose "data.media.chunk" is field; valid is
\* validateMediaFormat(data).valid
EvMediaField(s, valid, field) ==
  /\ Live(s)
  /\ received < MaxChunks
  /\ IF Forwarded("media")
     THEN /\ Turn("forward", forwardEvent(clientState, "media", 0), tasks, FALSE)
          /\ received' = received
          /\ unindexed' = unindexed
     ELSE /\ Turn("media",
                  handleMedia(clientState, valid, chunkOrZero(field),
                              received + 1, markCount, Len(tasks)),
                  tasks, FALSE)
          /\ received' = IF valid THEN received + 1 ELSE received
          /\ unindexed' = IF valid /\ field = NoChunk
                          THEN unindexed \cup {received + 1}
                          ELSE unindexed
  /\ UNCHANGED <<server, seqCap, readyState, accepted, markCount>>

\* a media event with chunk index idx
EvMedia(s, valid, idx) == EvMediaField(s, valid, <<idx>>)

\* a media event with a valid payload and no chunk index
EvMediaUnindexed(s) == EvMediaField(s, TRUE, NoChunk)

\* case "mark" that hands every mark to processMarkEvent, named or not
handleMarkUnchecked(sock, st, named, mark) == processMarkEvent(sock, st, mark)

\* case "mark" of handleMessage: "if (data.mark?.name)" processMarkEvent;
\* named is the truth value of "data.mark?.name"
handleMark(sock, st, named, mark) ==
  IF named
  THEN processMarkEvent(sock, st, mark)
  ELSE Result(st, <<>>, <<>>, <<>>)

\* a mark event; named = "data.mark?.name" is truthy
EvMark(s, named) ==
  /\ Live(s)
  /\ markCount < MaxMarks
  /\ Turn("mark", handleMark(s, clientState, named, markCount + 1), tasks, FALSE)
  /\ markCount' = IF named THEN markCount + 1 ELSE markCount
  /\ UNCHANGED <<server, seqCap, readyState, accepted, received, unindexed>>

EvStop(s) ==
  /\ Live(s)
  /\ IF Forwarded("stop")
     THEN Turn("forward", forwardEvent(clientState, "stop", 0), tasks, FALSE)
     ELSE Turn("stop", handleStop(s, clientState), tasks, TRUE)
  /\ UNCHANGED <<server, seqCap, readyState, accepted, received, unindexed, markCount>>

EvClear(s) ==
  /\ Live(s)
  /\ Turn("clear", handleClear(s, clientState), tasks, FALSE)
  /\ UNCHANGED <<server, seqCap, readyState, accepted, received, unindexed, markCount>>

EvDtmf(s) ==
  /\ Live(s)
  /\ Turn("dtmf", handleDtmf(s, clientState), tasks, FALSE)
  /\ UNCHANGED <<server, seqCap, readyState, accepted, received, unindexed, markCount>>

EvUnknown(s) ==
  /\ Live(s)
  /\ Turn("unknown", sendError(s, clientState, CodeUnknown), tasks, FALSE)
  /\ UNCHANGED <<server, seqCap, readyState, accepted, received, unindexed, markCount>>

\* a message that JSON.parse rejects: the catch of the message handler
EvUnparseable(s) ==
  /\ Live(s)
  /\ Turn("unparseable", sendError(s, clientState, CodeMessage), tasks, FALSE)
  /\ UNCHANGED <<server, seqCap, readyState, accepted, received, unindexed, markCount>>

Without(seq, i) == SubSeq(seq, 1, i - 1) \o SubSeq(seq, i + 1, Len(seq))

\* the greeting lookup of a suspended handleStart settles
GreetingDone(i) ==
  /\ tasks[i].kind = "greeting"
  /\ Turn("greeting", handleStartResume(tasks[i], clientState), Without(tasks, i), FALSE)
  /\ UNCHANGED <<server, seqCap, readyState, accepted, received, unindexed, markCount>>

\* processAudioWithAI of a suspended handleAudioProcessing resolves or throws
PipelineDone(i, ok) ==
  /\ tasks[i].kind = "audio"
  /\ Turn("pipeline", handleAudioProcessing(tasks[i], clientState, ok),
          Without(tasks, i), FALSE)
  /\ UNCHANGED <<server, seqCap, readyState, accepted, received, unindexed, markCount>>

\* the token check of a browser connection passing whenever a token is given
TokenAcceptedIfPresent(token) == token # "none"

\* "!authToken || authToken !== AUTH_TOKEN" is false
TokenAccepted(token) == token = AUTH_TOKEN

\* the map without the connection of browser b
WithoutBrowser(b) ==
  [c \in DOMAIN browserConnections \ {b} |-> browserConnections[c]]

\* a socket reaches wss.on('connection') with type=browser and the token of
\* its request
BrowserConnect(b, token) ==
  /\ server = "service"
  /\ browserSockets[b].readyState = "NONE"
  /\ \A c \in Browsers : c < b => browserSockets[c].readyState # "NONE"
  /\ IF TokenAccepted(token)
     THEN /\ browserSockets' = [browserSockets EXCEPT
                                  ![b] = [readyState |-> "OPEN", token |-> token]]
          /\ browserConnections' =
               [c \in DOMAIN browserConnections \cup {b} |->
                  IF c = b
                  THEN [authToken |-> token, isHandlingCommunications |-> FALSE]
                  ELSE browserConnections[c]]
          /\ browserInbox' = [browserInbox EXCEPT
                                ![b] = @ \cup {[event |-> "connected", code |-> 0]}]
     ELSE /\ browserSockets' = [browserSockets EXCEPT
                                  ![b] = [readyState |-> "CLOSING", token |-> token]]
          /\ browserConnections' = browserConnections
          /\ browserInbox' = [browserInbox EXCEPT
                                ![b] = @ \cup {[event |-> "error", code |-> CodeAuth]}]
  /\ sent' = <<>>
  /\ issued' = <<>>
  /\ broadcast' = <<>>
  /\ UNCHANGED <<server, seqCap, readyState, accepted, clientState, tasks, received, unindexed,
                 markCount, timesHanded, lastIssued, lastSent, afterStop, audioCall>>

\* a message of a registered browser; takeover says whether its event is
\* "handle_communications"
BrowserMessage(b, takeover) ==
  /\ b \in DOMAIN browserConnections
  /\ browserSockets[b].readyState = "OPEN"
  /\ IF takeover
     THEN /\ browserConnections' = [browserConnections EXCEPT
                                      ![b].isHandlingCommunications = TRUE]
          /\ sent' = <<>>
          /\ browserInbox' = browserInbox
     ELSE IF SingleClientBusy(clientState, readyState)
     THEN /\ browserConnections' = browserConnections
          /\ sent' = << Msg(clientState.socket, "browser", 0, 0, 0, 0, "browser", 0) >>
          /\ browserInbox' = browserInbox
     ELSE /\ browserConnections' = browserConnections
          /\ sent' = <<>>
          /\ browserInbox' = [browserInbox EXCEPT
                                ![b] = @ \cup {[event |-> "error",
                                                code |-> CodeNoService]}]
  /\ issued' = <<>>
  /\ broadcast' = <<>>
  /\ UNCHANGED <<server, seqCap, readyState, accepted, clientState, tasks, received, unindexed,
                 markCount, timesHanded, lastIssued, lastSent, afterStop,
                 browserSockets, audioCall>>

\* a browser socket closes or fails: ws.on('close') / ws.on('error') of a
\* registered browser delete it from the map
BrowserClose(b) ==
  /\ browserSockets[b].readyState \in {"OPEN", "CLOSING"}
  /\ browserSockets' = [browserSockets EXCEPT ![b].readyState = "CLOSED"]
  /\ browserConnections' = WithoutBrowser(b)
  /\ sent' = <<>>
  /\ issued' = <<>>
  /\ broadcast' = <<>>
  /\ UNCHANGED <<server, seqCap, readyState, accepted, clientState, tasks, received, unindexed,
                 markCount, timesHanded, lastIssued, lastSent, afterStop,
                 browserInbox, audioCall>>

RECURSIVE SeqsUpTo(_, _)
\* the sequences over S of length at most n
SeqsUpTo(S, n) ==
  IF n = 0 THEN {<<>>}
  ELSE LET shorter == SeqsUpTo(S, n - 1)
       IN shorter \cup {Append(q, x) : q \in {r \in shorter : Len(r) = n - 1}, x \in S}

PcmBuffers == SeqsUpTo(PcmValues, MaxPcmLen)

\* one call of an audio utility; it touches nothing of the session
AudioCall(step, pcm, rate, result) ==
  /\ audioCall' = [step |-> step, pcm |-> pcm, rate |-> rate, out |-> result]
  /\ UNCHANGED <<server, seqCap, readyState, accepted, clientState, tasks, received, unindexed,
                 markCount, timesHanded, lastIssued, lastSent, afterStop, issued,
                 sent, broadcast, browserVars>>

\* a sample is encoded by linearToMuLaw and the byte decoded by muLawToLinear
MuLawRoundTrip ==
  /\ audioCall.step = "idle"
  /\ \E x \in Samples :
       AudioCall("mulaw", <<x>>, 0, << muLawToLinear(linearToMuLaw(x)) >>)

\* upsampleTo16k is applied to a buffer
Upsample ==
  /\ audioCall.step = "idle"
  /\ \E pcm \in PcmBuffers : AudioCall("upsample", pcm, 0, upsampleTo16k(pcm))

\* createWavFromPCM is applied to a buffer and a sample rate
CreateWav ==
  /\ audioCall.step = "idle"
  /\ \E pcm \in PcmBuffers, rate \in Rates :
       AudioCall("wav", pcm, rate, createWavFromPCM(pcm, rate))

\* applyNoiseReduction is applied to a buffer of fewer than 100 samples
NoiseReduce ==
  /\ audioCall.step = "idle"
  /\ \E pcm \in PcmBuffers :
       /\ Len(pcm) < NoiseReductionMinSamples
       /\ AudioCall("noise", pcm, 0, applyNoiseReductionShort(pcm))

\* convertToStreamCompatibleAudio is applied to a buffer at the target rate
ConvertStream ==
  /\ audioCall.step = "idle"
  /\ \E pcm \in SeqsUpTo(FloatValues, MaxPcmLen) :
       AudioCall("convert", pcm, 8000, convertToStreamCompatibleAudio(pcm))

Next ==
  \/ \E s \in Sockets : Connect(s)
  \/ \E s \in Sockets : PeerClose(s)
  \/ \E s \in Sockets : SocketError(s)
  \/ \E s \in Sockets : CloseEvent(s)
  \/ \E s \in Sockets : EvConnected(s)
  \/ \E s \in Sockets, sid \in StreamSids : EvStart(s, sid)
  \/ \E s \in Sockets, valid \in BOOLEAN, idx \in ChunkIdx : EvMedia(s, valid, idx)
  \/ \E s \in Sockets : EvMediaUnindexed(s)
  \/ \E s \in Sockets, named \in BOOLEAN : EvMark(s, named)
  \/ \E s \in Sockets : EvStop(s)
  \/ \E s \in Sockets : EvClear(s)
  \/ \E s \in Sockets : EvDtmf(s)
  \/ \E s \in Sockets : EvUnknown(s)
  \/ \E s \in Sockets : EvUnparseable(s)
  \/ \E i \in 1..Len(tasks) : GreetingDone(i)
  \/ \E i \in 1..Len(tasks), ok \in BOOLEAN : PipelineDone(i, ok)
  \/ \E b \in Browsers, token \in Tokens : BrowserConnect(b, token)
  \/ \E b \in Browsers, takeover \in BOOLEAN : BrowserMessage(b, takeover)
  \/ \E b \in Browsers : BrowserClose(b)
  \/ MuLawRoundTrip
  \/ Upsample
  \/ CreateWav
  \/ NoiseReduce
  \/ ConvertStream

Spec == Init /\ [][Next]_vars

\* the protocol on one connection that stays open: every inbound event and
\* every completion, in any order
NextStream ==
  \/ \E s \in Sockets : accepted = {} /\ Connect(s)
  \/ \E s \in Sockets : EvConnected(s)
  \/ \E s \in Sockets, sid \in StreamSids : EvStart(s, sid)
  \/ \E s \in Sockets, valid \in BOOLEAN, idx \in ChunkIdx : EvMedia(s, valid, idx)
  \/ \E s \in Sockets, named \in BOOLEAN : EvMark(s, named)
  \/ \E s \in Sockets : EvStop(s)
  \/ \E s \in Sockets : EvClear(s)
  \/ \E s \in Sockets : EvDtmf(s)
  \/ \E s \in Sockets : EvUnknown(s)
  \/ \E s \in Sockets : EvUnparseable(s)
  \/ \E i \in 1..Len(tasks) : GreetingDone(i)
  \/ \E i \in 1..Len(tasks), ok \in BOOLEAN : PipelineDone(i, ok)

SpecStream == InitIndex /\ [][NextStream]_vars

\* the connection lifecycle of either server: sockets connect, fail and close
\* in any order; on the index server also around the events that start, fill,
\* consolidate and stop a stream (the events of the service server are those of
\* NextObserver)
NextConn ==
  \/ \E s \in Sockets : Connect(s)
  \/ \E s \in Sockets : PeerClose(s)
  \/ \E s \in Sockets : SocketError(s)
  \/ \E s \in Sockets : CloseEvent(s)
  \/ \E s \in Sockets, sid \in StreamSids : server = "index" /\ EvStart(s, sid)
  \/ \E s \in Sockets, idx \in ChunkIdx : server = "index" /\ EvMedia(s, TRUE, idx)
  \/ \E s \in Sockets : server = "index" /\ EvMark(s, TRUE)
  \/ \E s \in Sockets : server = "index" /\ EvStop(s)
  \/ \E i \in 1..Len(tasks) : GreetingDone(i)
  \/ \E i \in 1..Len(tasks), ok \in BOOLEAN : PipelineDone(i, ok)

SpecConn == Init /\ [][NextConn]_vars

\* connection attempts while a connection is open and a stream is started,
\* filled, consolidated and stopped on it
NextBusy ==
  \/ \E s \in Sockets : Connect(s)
  \/ \E s \in Sockets, sid \in StreamSids : EvStart(s, sid)
  \/ \E s \in Sockets, idx \in ChunkIdx : EvMedia(s, TRUE, idx)
  \/ \E s \in Sockets : EvMark(s, TRUE)
  \/ \E s \in Sockets : EvStop(s)
  \/ \E i \in 1..Len(tasks) : GreetingDone(i)
  \/ \E i \in 1..Len(tasks), ok \in BOOLEAN : PipelineDone(i, ok)

SpecBusy == InitIndex /\ [][NextBusy]_vars

\* one connection that stays open, with the events that pile up pending marks
\* and flush them: start, media, mark, clear and the completions
NextClear ==
  \/ \E s \in Sockets : accepted = {} /\ Connect(s)
  \/ \E s \in Sockets, sid \in StreamSids : EvStart(s, sid)
  \/ \E s \in Sockets, idx \in ChunkIdx : EvMedia(s, TRUE, idx)
  \/ \E s \in Sockets : EvMediaUnindexed(s)
  \/ \E s \in Sockets : EvMark(s, TRUE)
  \/ \E s \in Sockets : EvClear(s)
  \/ \E i \in 1..Len(tasks) : GreetingDone(i)
  \/ \E i \in 1..Len(tasks), ok \in BOOLEAN : PipelineDone(i, ok)

SpecClear == InitLong /\ [][NextClear]_vars

\* one connection that stays open, with the events that start, fill,
\* consolidate and stop a stream and the completions
NextPipeline ==
  \/ \E s \in Sockets : accepted = {} /\ Connect(s)
  \/ \E s \in Sockets, sid \in StreamSids : EvStart(s, sid)
  \/ \E s \in Sockets : EvMedia(s, TRUE, 0)
  \/ \E s \in Sockets : EvMark(s, TRUE)
  \/ \E s \in Sockets : EvStop(s)
  \/ \E i \in 1..Len(tasks) : GreetingDone(i)
  \/ \E i \in 1..Len(tasks), ok \in BOOLEAN : PipelineDone(i, ok)

\* every awaited call of the AI pipeline eventually returns or throws
SpecPipeline ==
  /\ InitIndex
  /\ [][NextPipeline]_vars
  /\ \A i \in 1..MaxTasks :
       WF_vars(i <= Len(tasks) /\ \E ok \in BOOLEAN : PipelineDone(i, ok))

\* two connections in succession on the index server: the second is attempted
\* once the first has closed; every event, error and completion may be handled
\* on the open one, and completions also after it closed
NextSession ==
  \/ \E s \in 1..2 : (\A r \in accepted : readyState[r] = "CLOSED") /\ Connect(s)
  \/ \E s \in Sockets : PeerClose(s)
  \/ \E s \in Sockets : CloseEvent(s)
  \/ \E s \in Sockets : EvConnected(s)
  \/ \E s \in Sockets, sid \in StreamSids : EvStart(s, sid)
  \/ \E s \in Sockets, valid \in BOOLEAN : EvMedia(s, valid, 0)
  \/ \E s \in Sockets : EvMark(s, TRUE)
  \/ \E s \in Sockets : EvStop(s)
  \/ \E s \in Sockets : EvClear(s)
  \/ \E s \in Sockets : EvDtmf(s)
  \/ \E s \in Sockets : EvUnknown(s)
  \/ \E s \in Sockets : EvUnparseable(s)
  \/ \E i \in 1..Len(tasks) : GreetingDone(i)
  \/ \E i \in 1..Len(tasks), ok \in BOOLEAN : PipelineDone(i, ok)

SpecSession == InitIndex /\ [][NextSession]_vars

\* the service server with one service connection that stays open and
\* browsers that connect, send messages and leave, around the events that
\* start and stop a stream
NextObserver ==
  \/ \E s \in Sockets : accepted = {} /\ Connect(s)
  \/ \E b \in Browsers, token \in Tokens : BrowserConnect(b, token)
  \/ \E b \in Browsers, takeover \in BOOLEAN : BrowserMessage(b, takeover)
  \/ \E b \in Browsers : BrowserClose(b)
  \/ \E s \in Sockets : EvStart(s, 1)
  \/ \E s \in Sockets : EvStop(s)
  \/ \E i \in 1..Len(tasks) : GreetingDone(i)

SpecObserver == InitService /\ [][NextObserver]_vars

\* the audio utilities, each applied to every input of the bounded sets
NextAudio ==
  \/ MuLawRoundTrip
  \/ Upsample
  \/ CreateWav
  \/ NoiseReduce
  \/ ConvertStream

SpecAudio == InitIndex /\ [][NextAudio]_vars

\* the service server with one service connection that stays open and one
\* browser that registers and takes over the communications, around every
\* event of the service connection; the audio pipelines stay suspended
NextTakeover ==
  \/ accepted = {} /\ Connect(1)
  \/ BrowserConnect(1, AUTH_TOKEN)
  \/ BrowserMessage(1, TRUE)
  \/ \E s \in Sockets : EvConnected(s)
  \/ \E s \in Sockets : EvStart(s, 1)
  \/ \E s \in Sockets : EvMedia(s, TRUE, 0)
  \/ \E s \in Sockets : EvMark(s, TRUE)
  \/ \E s \in Sockets : EvStop(s)
  \/ \E s \in Sockets : EvClear(s)
  \/ \E s \in Sockets : EvDtmf(s)
  \/ \E i \in 1..Len(tasks) : GreetingDone(i)

SpecTakeover == InitService /\ [][NextTakeover]_vars

(* ------------------------------ properties ---------------------------- *)
\* the continuations of kind "audio" that are suspended
AudioTasks == {i \in 1..Len(tasks) : tasks[i].kind = "audio"}

\* how often chunk id is in the buffer
InBuffer(id) ==
  Cardinality({i \in 1..Len(clientState.mediaChunks) :
                 clientState.mediaChunks[i].id = id})

\* C1: in every reachable state at most one PRIMARY connection is open and
\* accepted (its handlers are attached and it mutates the shared session).
AtMostOnePrimary == Cardinality({s \in Sockets : Live(s)}) <= 1

\* C2: every chunk appended to the buffer is in the consolidated payload of
\* exactly one mark, the first one handled after it was appended: a chunk is
\* either still buffered (once, and no mark was handled since it arrived) or
\* was handed over exactly once; none is handed twice and none is lost.
EveryChunkConsolidatedOnce ==
  /\ \A id \in 1..received : timesHanded[id] + InBuffer(id) = 1
  /\ \A id \in (received + 1)..MaxChunks : timesHanded[id] + InBuffer(id) = 0
  /\ \A i \in 1..Len(clientState.mediaChunks) :
       clientState.mediaChunks[i].epoch = markCount

\* two marks consolidated one chunk each while another payload is in flight
EveryChunkConsolidatedOnceWitness ==
  /\ received = 2 /\ markCount = 2
  /\ timesHanded[1] = 1 /\ timesHanded[2] = 1
  /\ clientState.mediaChunks = <<>>
  /\ AudioTasks # {}

\* C3: while a pipeline is in flight media events are still appended to the
\* buffer, and a chunk received after mark M was handled is never in the
\* payload processed for M: every chunk of M's payload arrived after mark
\* M - 1 and before mark M, so a later chunk is in the next mark's payload.
NoCrossContamination ==
  /\ [](\A i \in AudioTasks : \A k \in 1..Len(tasks[i].audio) :
          tasks[i].audio[k].epoch = tasks[i].mark - 1)
  /\ [][(received' = received + 1 /\ tasks # <<>>)
          => \E idx \in ChunkIdx :
               clientState'.mediaChunks =
                 Append(clientState.mediaChunks,
                        Chunk(received + 1, idx, markCount))]_vars

\* the pipeline of mark 1 is in flight; a chunk that arrived after mark 1 was
\* handed to the pipeline of mark 2, and it is not in the payload of mark 1
NoCrossContaminationWitness ==
  /\ Len(tasks) = 2
  /\ tasks[1].kind = "audio" /\ tasks[1].mark = 1
  /\ tasks[2].kind = "audio" /\ tasks[2].mark = 2
  /\ \E k \in 1..Len(tasks[2].audio) : tasks[2].audio[k].epoch = 1
  /\ \A k \in 1..Len(tasks[1].audio) : tasks[1].audio[k].epoch = 0

\* C4: when a mark is handled with a non-empty buffer, the buffer is empty
\* as soon as the handling of the mark returns, while the pipeline started
\* for it is still suspended.
BufferClearedAtHandoff ==
  [][(markCount' = markCount + 1 /\ clientState.mediaChunks # <<>>)
       => /\ clientState'.mediaChunks = <<>>
          /\ \E i \in 1..Len(tasks') :
               /\ tasks'[i].kind = "audio"
               /\ tasks'[i].mark = markCount'
               /\ Len(tasks'[i].audio) = Len(clientState.mediaChunks)]_vars

\* the buffer is empty and the pipeline of the last mark has not completed
BufferClearedAtHandoffWitness ==
  /\ markCount > 0
  /\ clientState.mediaChunks = <<>>
  /\ \E i \in AudioTasks : tasks[i].mark = markCount /\ Len(tasks[i].audio) = 2

\* C5: the reply of a pipeline is discarded when a stop (possibly followed
\* by a new start) occurred while it was in flight: no media, mark or error
\* it produced is sent once the session's streamSid differs from the
\* streamSid the session had when the pipeline started (stated for the
\* pipelines that started inside a stream).
StaleReplyDiscarded ==
  \A i \in 1..Len(sent) :
    (sent[i].origin = "audio" /\ sent[i].captured # 0)
      => sent[i].sid = sent[i].captured

\* the sequence number issued before msgs[i]'s: that of the last stamped
\* message among msgs[1..i-1], or before when there is none
SeqBefore(msgs, i, before) ==
  LET earlier == {k \in 1..(i - 1) : msgs[k].seq # 0}
  IN IF earlier = {} THEN before
     ELSE msgs[CHOOSE k \in earlier : \A j \in earlier : j <= k].seq

\* C6: for any sequence of events on one session the sequence numbers issued
\* by getNextSequenceNumber strictly increase (every number a step issues is
\* larger than the one issued before it since the last reset), and the first
\* number issued after a stop event was handled is 1.
SequenceIncreasesAndRestartsAtOne ==
  [][/\ \A i \in 1..Len(issued') :
          issued'[i] > (IF i = 1 THEN lastIssued ELSE issued'[i - 1])
     /\ (afterStop = "armed" /\ issued' # <<>>) => issued'[1] = 1]_vars

\* after a stop the numbers 1 and then 2 were issued
SequenceIncreasesAndRestartsAtOneWitness ==
  /\ afterStop = "later"
  /\ lastIssued = 2
  /\ issued = <<2>>

\* C7: for any interleaving of inbound events and asynchronous completions
\* the sequenceNumber fields of the messages sent on the PRIMARY socket
\* within one session strictly increase in the order the messages are sent.
SentSequenceIncreases ==
  [][\A i \in 1..Len(sent') :
       sent'[i].seq # 0 => sent'[i].seq > SeqBefore(sent', i, lastSent)]_vars

\* a pipeline reply is sent after two other stamped messages of the session
SentSequenceIncreasesWitness ==
  /\ Len(sent) = 2
  /\ sent[1].origin = "audio" /\ sent[1].event = "media" /\ sent[1].seq = 3
  /\ lastSent = 3

\* C8: a connection attempt made while another PRIMARY connection is live is
\* answered with an error event of code 1003 and the new socket is closed;
\* no handler is attached to it.
SecondPrimaryRefused ==
  [][\A s \in Sockets :
       (/\ readyState[s] = "NONE"
        /\ readyState'[s] # "NONE"
        /\ \E r \in Sockets : Live(r))
       => /\ s \notin accepted'
          /\ readyState'[s] = "CLOSING"
          /\ sent' = << Msg(s, "error", 0, 0, CodeBusy, 0, "connection", 0) >>]_vars

\* C9: rejecting a second PRIMARY connection leaves every field of the
\* existing session unchanged: socket, streamSid, sequence and chunk
\* counters, pendingMarks and the buffered chunks.
RejectionLeavesSession ==
  [][\A s \in Sockets :
       (readyState[s] = "NONE" /\ readyState'[s] = "CLOSING")
       => clientState' = clientState]_vars

\* a connection was just refused while the session held a stream, a counter
\* past its start, a pending mark and a buffered chunk
RejectionLeavesSessionWitness ==
  /\ \E s \in Sockets :
       /\ readyState[s] = "CLOSING"
       /\ s \notin accepted
       /\ sent = << Msg(s, "error", 0, 0, CodeBusy, 0, "connection", 0) >>
  /\ clientState.socket # 0
  /\ clientState.streamSid # 0
  /\ clientState.sequenceNumber > 1
  /\ clientState.mediaChunkCounter > 1
  /\ clientState.pendingMarks # <<>>
  /\ clientState.mediaChunks # <<>>

\* C10: whenever the session's streamSid changes the buffer is empty at the
\* moment of the change: no chunk buffered under one streamSid is still
\* buffered under another (stated for the changes that end or replace a
\* stream).
BufferEmptyWhenStreamChanges ==
  [][(clientState.streamSid # 0
        /\ clientState'.streamSid # clientState.streamSid)
       => clientState.mediaChunks = <<>>]_vars

\* C11: a mark event handled while the buffer is empty starts no
\* audio-processing call and still forwards a mark message with the same
\* name; every named mark event is forwarded, consolidation or not.
MarkAlwaysForwarded ==
  [][markCount' = markCount + 1
       => LET fwd == Msg(0, "mark", 0, clientState.streamSid, 0, markCount',
                         "mark", clientState.streamSid)
          IN /\ broadcast' # <<>>
             /\ broadcast'[Len(broadcast')] = fwd
             /\ clientState.mediaChunks = <<>>
                  => /\ broadcast' = <<fwd>>
                     /\ tasks' = tasks
                     /\ issued' = <<>>
                     /\ clientState' = clientState]_vars

\* the second mark was just handled with an empty buffer: it was forwarded
\* and nothing was handed to the pipeline for it
MarkAlwaysForwardedWitness ==
  /\ markCount = 2
  /\ Len(broadcast) = 1
  /\ broadcast[1].event = "mark" /\ broadcast[1].name = 2
  /\ \A i \in AudioTasks : tasks[i].mark # 2
  /\ timesHanded[1] = 1

InFlight(m) == \E i \in AudioTasks : tasks[i].mark = m

\* C13: assuming every external collaborator call eventually returns or
\* throws, every mark that hands a non-empty buffer to the pipeline is
\* eventually followed on the PRIMARY socket by an outbound media reply or an
\* error event: the pipeline of every mark eventually settles, and the step
\* in which it settles sends one of the two.
EveryUtteranceAnswered ==
  /\ \A m \in 1..MaxMarks : InFlight(m) ~> ~InFlight(m)
  /\ [][\A m \in 1..MaxMarks :
          (InFlight(m) /\ ~InFlight(m)')
            => \E k \in 1..Len(sent') :
                 /\ sent'[k].origin = "audio"
                 /\ sent'[k].event \in {"media", "error"}
                 /\ sent'[k].to = clientState.socket]_vars

\* both utterances were handed over and answered, the second with an error
EveryUtteranceAnsweredWitness ==
  /\ markCount = 2 /\ tasks = <<>>
  /\ timesHanded[1] = 1 /\ timesHanded[2] = 1
  /\ Len(clientState.pendingMarks) = 1
  /\ Len(sent) = 1 /\ sent[1].event = "error" /\ sent[1].code = CodePipeline

\* C14: a stop event handled in any state first sends a stop acknowledgement
\* carrying the streamSid of the stream being stopped, and leaves the session
\* with streamSid null, pendingMarks empty and both counters equal to 1.
StopAcknowledgesThenResets ==
  [][\A s \in Sockets :
       EvStop(s)
         => /\ sent' = << Msg(s, "stop", clientState.sequenceNumber,
                              clientState.streamSid, 0, 0, "stop",
                              clientState.streamSid) >>
            /\ clientState'.streamSid = 0
            /\ clientState'.pendingMarks = <<>>
            /\ clientState'.sequenceNumber = 1
            /\ clientState'.mediaChunkCounter = 1
            /\ clientState'.socket = clientState.socket
            /\ clientState'.mediaChunks = clientState.mediaChunks]_vars

\* a stop was just acknowledged for stream 2 with the number 4, while a
\* pipeline was suspended
StopAcknowledgesThenResetsWitness ==
  /\ Len(sent) = 1 /\ sent[1].event = "stop" /\ sent[1].sid = 2
  /\ sent[1].seq = 4
  /\ clientState.streamSid = 0 /\ clientState.pendingMarks = <<>>
  /\ clientState.sequenceNumber = 1 /\ clientState.mediaChunkCounter = 1
  /\ AudioTasks # {}

\* C15: handling a start event sets the session's streamSid from the event
\* and resets the sequence and chunk counters to 1, so the first message
\* stamped after the start carries sequence number 1.
StartResetsCounters ==
  [][\A s \in Sockets, sid \in StreamSids :
       EvStart(s, sid)
         => /\ clientState'.streamSid = sid
            /\ issued' # <<>> /\ issued'[1] = 1
            /\ clientState'.mediaChunkCounter = 1]_vars

\* C16: a start event takes effect only when no stream is active: a start
\* received while a stream is active does not replace the active streamSid.
StartKeepsActiveStream ==
  [][\A s \in Sockets, sid \in StreamSids :
       (EvStart(s, sid) /\ clientState.streamSid # 0)
         => clientState'.streamSid = clientState.streamSid]_vars

\* C17: after the PRIMARY socket closes the session is reset to empty:
\* streamSid is null, pendingMarks is empty and the buffer is empty, so a
\* later connection never observes stream state or buffered audio of the
\* previous connection.
SessionEmptyAfterClose ==
  [][\A s \in Sockets :
       (s \in accepted /\ readyState[s] = "CLOSING" /\ readyState'[s] = "CLOSED")
         => /\ clientState'.streamSid = 0
            /\ clientState'.pendingMarks = <<>>
            /\ clientState'.mediaChunks = <<>>]_vars

\* C18: a clear event with a stream active sends every pending mark to the
\* peer in the order in which the marks were added, then the clear
\* acknowledgement, and leaves pendingMarks empty; a clear event with no
\* active stream sends nothing and changes no state.
ClearFlushesInOrder ==
  [][\A s \in Sockets :
       EvClear(s)
         => IF clientState.streamSid # 0
            THEN /\ sent' =
                      [i \in 1..Len(clientState.pendingMarks) |->
                         Msg(s, "mark", 0, clientState.streamSid, 0,
                             clientState.pendingMarks[i], "clear",
                             clientState.streamSid)]
                      \o << Msg(s, "clear", clientState.sequenceNumber,
                                clientState.streamSid, 0, 0, "clear",
                                clientState.streamSid) >>
                 /\ clientState'.pendingMarks = <<>>
            ELSE /\ sent' = <<>>
                 /\ issued' = <<>>
                 /\ clientState' = clientState]_vars

\* a clear just flushed two pending marks, the mark of the second pipeline
\* (which replied first) before the mark of the first, then acknowledged
ClearFlushesInOrderWitness ==
  /\ Len(sent) = 3
  /\ sent[1].event = "mark" /\ sent[1].name = 2 /\ sent[1].origin = "clear"
  /\ sent[2].event = "mark" /\ sent[2].name = 1 /\ sent[2].origin = "clear"
  /\ sent[3].event = "clear"
  /\ clientState.pendingMarks = <<>>

IsPrefix(a, b) == Len(a) <= Len(b) /\ SubSeq(b, 1, Len(a)) = a

\* the step sent every mark of the list to the peer, in the order of the list
FlushedToPeer(marks) ==
  /\ Len(sent') > Len(marks)
  /\ \A i \in 1..Len(marks) :
       sent'[i].event = "mark" /\ sent'[i].name = marks[i]

\* C19 (as claimed): pendingMarks is append-only until flushed: its previous
\* content is a prefix of its current content, and a mark name leaves the
\* list only in a flush that sends all pending marks to the peer and empties
\* the list in one step.
PendingMarksLeaveOnlyByFlush ==
  [][\/ IsPrefix(clientState.pendingMarks, clientState'.pendingMarks)
     \/ /\ clientState'.pendingMarks = <<>>
        /\ FlushedToPeer(clientState.pendingMarks)]_vars

\* C19 (amended): pendingMarks is append-only until it is emptied: its
\* previous content is a prefix of its current content, or the step empties
\* the list as a whole; the emptying step is a clear, which first sends all
\* pending marks to the peer in order, or a stop, which discards them unsent.
PendingMarksAppendOnlyUntilEmptied ==
  [][\/ IsPrefix(clientState.pendingMarks, clientState'.pendingMarks)
     \/ /\ clientState'.pendingMarks = <<>>
        /\ \/ FlushedToPeer(clientState.pendingMarks)
           \/ \E s \in Sockets : EvStop(s)]_vars

\* two pipelines replied, the second first, and both marks are pending in
\* the order they were added
PendingMarksAppendOnlyUntilEmptiedWitness ==
  /\ clientState.pendingMarks = <<2, 1>>
  /\ tasks = <<>>
  /\ Len(sent) = 2 /\ sent[2].event = "mark" /\ sent[2].name = 1

\* C20: a media event appends a chunk to the buffer only when a stream is
\* active (streamSid set) and its payload is valid base64; a media event
\* received with no active stream or with an invalid payload leaves the
\* buffer unchanged.
MediaBufferedOnlyInStream ==
  [][\A s \in Sockets, valid \in BOOLEAN, idx \in ChunkIdx :
       EvMedia(s, valid, idx)
         => IF valid /\ clientState.streamSid # 0
            THEN clientState'.mediaChunks =
                   Append(clientState.mediaChunks,
                          Chunk(received + 1, idx, markCount))
            ELSE clientState'.mediaChunks = clientState.mediaChunks]_vars

\* C21: a media event whose payload is missing or is not valid base64 makes
\* the handler send an error event with a numeric code to the socket the
\* event came from.
InvalidMediaReported ==
  [][\A s \in Sockets, idx \in ChunkIdx :
       EvMedia(s, FALSE, idx)
         => \E i \in 1..Len(sent') :
              /\ sent'[i].event = "error"
              /\ sent'[i].to = s
              /\ sent'[i].code # 0]_vars

\* C22: an event whose tag is none of connected, start, media, mark, stop,
\* clear, dtmf makes the handler send an error event with code 1000 on the
\* socket the event came from.
UnknownEventReported ==
  [][\A s \in Sockets :
       EvUnknown(s)
         => \E i \in 1..Len(sent') :
              /\ sent'[i].event = "error"
              /\ sent'[i].to = s
              /\ sent'[i].code = CodeUnknown]_vars

\* the steps that handle a protocol error: a message that does not parse, an
\* event with an unknown tag, a media event with an invalid payload
ProtocolErrorStep ==
  \E s \in Sockets :
    \/ EvUnparseable(s)
    \/ EvUnknown(s)
    \/ \E idx \in ChunkIdx : EvMedia(s, FALSE, idx)

\* C23: handling a protocol error leaves the stream id, the pending marks,
\* the buffered chunks, the socket and the media chunk counter as they were;
\* the sequence counter stays or grows by the one number that stamps the
\* error message.
ProtocolErrorKeepsSession ==
  [][ProtocolErrorStep
       => /\ [clientState' EXCEPT !.sequenceNumber = clientState.sequenceNumber]
               = clientState
          /\ clientState'.sequenceNumber - clientState.sequenceNumber \in {0, 1}]_vars

\* an error was handled (a number issued, nothing sent, nothing broadcast)
\* inside a started stream with a chunk in the buffer, and both are still there
ProtocolErrorKeepsSessionWitness ==
  /\ issued # <<>> /\ sent = <<>> /\ broadcast = <<>>
  /\ clientState.streamSid # 0
  /\ clientState.mediaChunks # <<>>
  /\ clientState.sequenceNumber > 2

\* a step lowers the sequence counter or the media chunk counter
CounterLowered ==
  \/ clientState'.sequenceNumber < clientState.sequenceNumber
  \/ clientState'.mediaChunkCounter < clientState.mediaChunkCounter

ObserversDoNotDrive ==
  [][\A s \in Sockets :
       /\ \A sid \in StreamSids :
            EvStart(s, sid)
              => /\ clientState' = handleStart(s, clientState, sid).st
                 /\ sent' = Delivered(handleStart(s, clientState, sid).out)
       /\ \A idx \in ChunkIdx :
            EvMedia(s, TRUE, idx)
              => clientState' = handleMedia(clientState, TRUE, idx, received + 1,
                                            markCount, Len(tasks)).st
       /\ EvStop(s)
            => /\ clientState' = handleStop(s, clientState).st
               /\ sent' = Delivered(handleStop(s, clientState).out)]_vars

\* C26: a browser connection is in the map of browser connections only if
\* the token of its request equals the configured secret; a connection whose
\* token is missing or wrong is not in the map, its socket is closing or
\* closed, and the error with code 1001 is all it ever received.
BrowserRegisteredOnlyWithSecret ==
  \A b \in Browsers :
    /\ b \in DOMAIN browserConnections => browserSockets[b].token = AUTH_TOKEN
    /\ (browserSockets[b].readyState # "NONE" /\ browserSockets[b].token # AUTH_TOKEN)
         => /\ b \notin DOMAIN browserConnections
            /\ browserSockets[b].readyState \in {"CLOSING", "CLOSED"}
            /\ browserInbox[b] = {[event |-> "error", code |-> CodeAuth]}

\* browser 1 came with a wrong token and was refused, browser 2 came with the
\* secret and has received the broadcast of a stream start; browser 1 got
\* only its error
BrowserRegisteredOnlyWithSecretWitness ==
  /\ browserSockets[1].token = "wrong"
  /\ browserSockets[1].readyState = "CLOSED"
  /\ browserInbox[1] = {[event |-> "error", code |-> CodeAuth]}
  /\ 2 \in DOMAIN browserConnections
  /\ [event |-> "start", code |-> 0] \in browserInbox[2]
  /\ [event |-> "media", code |-> 0] \in browserInbox[2]

\* a holds exactly the chunks of buffer, each as often as buffer does
SameChunks(a, buffer) ==
  /\ Len(a) = Len(buffer)
  /\ \A i \in 1..Len(buffer) :
       Cardinality({j \in 1..Len(a) : a[j] = buffer[i]})
         = Cardinality({j \in 1..Len(buffer) : buffer[j] = buffer[i]})

\* a is in ascending order of chunk index, chunks of equal index in the
\* order they arrived (ids are arrival numbers)
AscendingStable(a) ==
  \A i, j \in 1..Len(a) :
    i < j => \/ a[i].chunk < a[j].chunk
             \/ a[i].chunk = a[j].chunk /\ a[i].id < a[j].id

\* C27: the audio that combineAudioChunks makes of the buffered chunks is the
\* concatenation of all their payloads in ascending order of chunk index, not
\* in arrival order, chunks of equal index staying in arrival order.
CombinedInChunkOrder ==
  [][\A s \in Sockets :
       (EvMark(s, TRUE) /\ clientState.mediaChunks # <<>>)
         => /\ Len(tasks') = Len(tasks) + 1
            /\ SameChunks(tasks'[Len(tasks')].audio, clientState.mediaChunks)
            /\ AscendingStable(tasks'[Len(tasks')].audio)]_vars

\* a pipeline holds two chunks of which the one that arrived second, with
\* the smaller index, comes first
CombinedInChunkOrderWitness ==
  \E i \in AudioTasks :
    /\ Len(tasks[i].audio) = 2
    /\ tasks[i].audio[1].id = 2 /\ tasks[i].audio[1].chunk = 0
    /\ tasks[i].audio[2].id = 1 /\ tasks[i].audio[2].chunk = 1

\* the G.711 segment a sample lies in: 0 for magnitudes below 124, one more
\* each time the biased magnitude doubles, 7 at most
SegmentOf(x) ==
  LET biased == Min(Abs(x), 32635) + 132
  IN Cardinality({e \in 1..7 : biased >= 2 ^ (e + 7)})

\* the distance between neighbouring decoded values of a segment
QuantizationStep(segment) == 2 ^ (segment + 3)

\* C28: a signed 16-bit sample that is encoded by linearToMuLaw and decoded
\* by muLawToLinear comes back within one quantization step of the mu-law
\* segment it lies in.
MuLawRoundTripWithinStep ==
  audioCall.step = "mulaw"
    => Abs(audioCall.out[1] - audioCall.pcm[1])
         <= QuantizationStep(SegmentOf(audioCall.pcm[1]))

\* C29: for every non-empty buffer upsampleTo16k returns a buffer of twice
\* the length that holds input sample i at index 2i (elements 2i + 1 of the
\* sequences here), in the cubic path and in the duplication path.
UpsampleKeepsSamples ==
  (audioCall.step = "upsample" /\ audioCall.pcm # <<>>)
    => /\ Len(audioCall.out) = 2 * Len(audioCall.pcm)
       /\ \A i \in 0..(Len(audioCall.pcm) - 1) :
            audioCall.out[2 * i + 1] = audioCall.pcm[i + 1]

\* a buffer of five samples went through the cubic path, and an interpolated
\* sample differs from both its neighbours
UpsampleKeepsSamplesWitness ==
  /\ audioCall.step = "upsample"
  /\ Len(audioCall.pcm) = 5
  /\ audioCall.out[2] # audioCall.pcm[1]
  /\ audioCall.out[2] # audioCall.pcm[2]
  /\ audioCall.out[9] = audioCall.pcm[5]

\* reading a WAV header: little-endian unsigned fields at a byte offset
ReadUint16(buf, offset) == buf[offset + 1] + 256 * buf[offset + 2]
ReadUint32(buf, offset) ==
  buf[offset + 1] + 256 * buf[offset + 2] + 65536 * buf[offset + 3]
    + 16777216 * buf[offset + 4]

\* the header of buf says: sampleRate, one channel, 16 bits, samples * 2 data
\* bytes, and buf is 44 bytes longer than its data
HeaderDescribes(buf, sampleRate, samples) ==
  /\ Len(buf) = 44 + 2 * samples
  /\ ReadUint16(buf, 22) = 1
  /\ ReadUint32(buf, 24) = sampleRate
  /\ ReadUint16(buf, 34) = 16
  /\ ReadUint32(buf, 40) = 2 * samples

\* C30: for every PCM buffer and sample rate the header that
\* createWavFromPCM writes parses to the supplied sample rate, one channel,
\* 16 bits and a data length of twice the number of samples, and the buffer
\* is 44 bytes longer than the data.
WavHeaderRoundTrip ==
  audioCall.step = "wav"
    => HeaderDescribes(audioCall.out, audioCall.rate, Len(audioCall.pcm))

\* buf is a RIFF/WAVE header that describes zero data bytes
EmptyWavHeader(buf) ==
  /\ Len(buf) = 44
  /\ SubSeq(buf, 1, 4) = << 82, 73, 70, 70 >>
  /\ SubSeq(buf, 9, 12) = << 87, 65, 86, 69 >>
  /\ ReadUint16(buf, 22) = 1
  /\ ReadUint16(buf, 34) = 16
  /\ ReadUint32(buf, 40) = 0

\* C31: a codec function called with an empty or undersized buffer returns
\* an empty result or a minimally-sized well-formed one: an empty Buffer from
\* convertToStreamCompatibleAudio, the input itself from applyNoiseReduction,
\* the duplicated samples from upsampleTo16k, and from createWavFromPCM a
\* valid RIFF/WAVE header that describes zero data bytes.
CodecsWellFormedOnShortInput ==
  /\ (audioCall.step = "convert" /\ audioCall.pcm = <<>>) => audioCall.out = <<>>
  /\ (audioCall.step = "noise" /\ Len(audioCall.pcm) < NoiseReductionMinSamples)
       => audioCall.out = audioCall.pcm
  /\ (audioCall.step = "upsample" /\ Len(audioCall.pcm) < 4)
       => /\ Len(audioCall.out) = 2 * Len(audioCall.pcm)
          /\ \A k \in 1..Len(audioCall.out) :
               audioCall.out[k] = audioCall.pcm[(k + 1) \div 2]
  /\ (audioCall.step = "wav" /\ audioCall.pcm = <<>>)
       => EmptyWavHeader(audioCall.out)

\* C32: the close or error event of an accepted socket that is not the
\* session's current socket leaves the socket reference, the stream id and
\* the pending marks of the current connection as they are, and the socket
\* reference is set whenever an accepted socket is open.
StaleCloseLeavesSession ==
  [][/\ \A s \in Sockets :
          ((CloseEvent(s) \/ SocketError(s))
             /\ s \in accepted /\ clientState.socket # 0 /\ clientState.socket # s)
            => /\ clientState'.socket = clientState.socket
               /\ clientState'.streamSid = clientState.streamSid
               /\ clientState'.pendingMarks = clientState.pendingMarks
     /\ (\E s \in Sockets : s \in accepted' /\ readyState'[s] = "OPEN")
          => clientState'.socket # 0]_vars

\* every suspended pipeline was started inside a stream
PipelinesStartedInStream ==
  \A i \in AudioTasks : tasks[i].sid # 0

\* pendingMarks is empty when no stream is active
NoMarksWithoutStream(st) == st.streamSid = 0 => st.pendingMarks = <<>>

\* C33: pendingMarks is empty whenever streamSid is null: no step of a stop,
\* a close or the completion of a pipeline that was started inside a stream
\* leads from a state where this holds to one where it does not.
PendingMarksEmptyWithoutStream ==
  [][(NoMarksWithoutStream(clientState) /\ PipelinesStartedInStream)
       => NoMarksWithoutStream(clientState')]_vars

\* C34 as stated: when two marks of a stream were handled in order, each with a
\* non-empty buffer, the media reply of the first is sent on the socket
\* before the reply of the second: no pipeline of the active stream sends its
\* reply when the reply of a later mark is already out (its mark is pending).
RepliesInMarkOrder ==
  [][\A i \in 1..Len(tasks) :
       (/\ tasks[i].kind = "audio"
        /\ PipelineDone(i, TRUE)
        /\ tasks[i].sid # 0 /\ tasks[i].sid = clientState.streamSid
        /\ \E k \in 1..Len(sent') : sent'[k].event = "media")
         => \A k \in 1..Len(clientState.pendingMarks) :
              clientState.pendingMarks[k] < tasks[i].mark]_vars

\* C34: the media replies of the marks of a stream are sent in the order in
\* which their pipelines complete, which need not be the order of the marks:
\* a pipeline that completes sends its media reply, stamped with the next
\* sequence number, and its mark in that very step, whatever other pipelines
\* are still suspended, and those stay suspended in their order.
RepliesInCompletionOrder ==
  [][\A i \in 1..Len(tasks) :
       (/\ tasks[i].kind = "audio"
        /\ PipelineDone(i, TRUE)
        /\ readyState[tasks[i].sock] = "OPEN")
         => /\ Len(sent') = 2
            /\ sent'[1].event = "media" /\ sent'[1].to = tasks[i].sock
            /\ sent'[1].seq = clientState.sequenceNumber
            /\ sent'[2].event = "mark" /\ sent'[2].name = tasks[i].mark
            /\ tasks' = Without(tasks, i)]_vars

\* inside a stream the reply of the second mark went out before the reply of
\* the first, which has just been sent with the later sequence number
RepliesInCompletionOrderWitness ==
  /\ clientState.streamSid # 0
  /\ clientState.pendingMarks = <<2, 1>>
  /\ Len(sent) = 2
  /\ sent[1].event = "media" /\ sent[1].seq = lastSent /\ sent[1].captured # 0
  /\ sent[2].name = 1

\* a registered browser has isHandlingCommunications set
TakenOver ==
  \E b \in DOMAIN browserConnections :
    browserConnections[b].isHandlingCommunications

\* C35: while a registered browser has isHandlingCommunications set, a
\* media, start or stop event of the service connection is only broadcast:
\* nothing is sent on the service socket, no number is issued, and the
\* session (stream id, counters, pending marks, buffer) is unchanged, so a
\* stop does not end the stream; mark, clear, dtmf and connected events are
\* processed by their handlers as usual.
TakeoverOnlyBroadcasts ==
  [][\A s \in Sockets :
       /\ (TakenOver /\ (EvStart(s, 1) \/ EvMedia(s, TRUE, 0) \/ EvStop(s)))
            => /\ sent' = <<>>
               /\ issued' = <<>>
               /\ clientState' = clientState
               /\ tasks' = tasks
               /\ Len(broadcast') = 1
               /\ broadcast'[1].event \in {"start", "media", "stop"}
       /\ EvMark(s, TRUE)
            => LET res == processMarkEvent(s, clientState, markCount + 1)
               IN clientState' = res.st /\ broadcast' = res.cast
       /\ EvClear(s)
            => /\ clientState' = handleClear(s, clientState).st
               /\ sent' = Delivered(handleClear(s, clientState).out)
       /\ EvDtmf(s)
            => /\ clientState' = handleDtmf(s, clientState).st
               /\ sent' = Delivered(handleDtmf(s, clientState).out)
       /\ EvConnected(s)
            => /\ clientState' = handleConnected(s, clientState).st
               /\ sent' = Delivered(handleConnected(s, clientState).out)]_vars

\* a stop event was forwarded to the browser that took over, and the stream
\* that was started before is still active
TakeoverOnlyBroadcastsWitness ==
  /\ TakenOver
  /\ Len(broadcast) = 1 /\ broadcast[1].event = "stop"
  /\ broadcast[1].origin = "forward"
  /\ clientState.streamSid # 0
  /\ sent = <<>>
  /\ [event |-> "stop", code |-> 0] \in browserInbox[1]

\* C36: a media event without a chunk index is buffered with index 0, so in
\* the audio a mark hands to the pipeline every chunk that came without an
\* index stands before every chunk with a positive index, whatever the
\* arrival order, and the chunks without an index stand in arrival order.
UnindexedChunksFirst ==
  /\ \A k \in 1..Len(clientState.mediaChunks) :
       clientState.mediaChunks[k].id \in unindexed
         => clientState.mediaChunks[k].chunk = 0
  /\ \A i \in AudioTasks :
       LET audio == tasks[i].audio
       IN \A a, b \in 1..Len(audio) :
            (/\ audio[a].id \in unindexed
             /\ \/ audio[b].chunk > 0
                \/ audio[b].id \in unindexed /\ audio[b].id > audio[a].id)
              => a < b

\* a pipeline holds a chunk that arrived second without an index in front of
\* the chunk with index 1 that arrived first
UnindexedChunksFirstWitness ==
  \E i \in AudioTasks :
    /\ Len(tasks[i].audio) = 2
    /\ tasks[i].audio[1].id = 2 /\ tasks[i].audio[1].id \in unindexed
    /\ tasks[i].audio[2].id = 1 /\ tasks[i].audio[2].chunk = 1

\* C37: a mark event whose mark name is missing or empty is ignored: nothing
\* is consolidated (no pipeline starts and the buffer stays), the session
\* with its counters is unchanged, nothing is broadcast, nothing is sent and
\* no number is issued.
UnnamedMarkIgnored ==
  [][\A s \in Sockets :
       EvMark(s, FALSE)
         => /\ clientState' = clientState
            /\ tasks' = tasks
            /\ broadcast' = <<>>
            /\ sent' = <<>>
            /\ issued' = <<>>
            /\ markCount' = markCount]_vars

\* chunks are buffered in an active stream, no mark was processed, and the
\* last event, which may be a mark without a name, left nothing to send or
\* broadcast
UnnamedMarkIgnoredWitness ==
  /\ clientState.streamSid # 0
  /\ Len(clientState.mediaChunks) = MaxChunks
  /\ markCount = 0
  /\ AudioTasks = {}
  /\ sent = <<>> /\ broadcast = <<>> /\ issued = <<>>
  /\ \E s \in Sockets : ENABLED EvMark(s, FALSE)

\* C38: for every buffer of at least 4 samples, the rounded cubic
\* interpolation of the four neighbours of each interpolated sample of
\* upsampleTo16k lies in [-32768, 32767], so that the sample is stored
\* without 16-bit wraparound.
InterpolatedSamplesFit ==
  (audioCall.step = "upsample" /\ Len(audioCall.pcm) >= 4)
    => LET ext == extendedPcm(audioCall.pcm)
       IN \A i \in 0..(Len(audioCall.pcm) - 2) :
            LET y == cubicInterpolate(ext[i + 3], ext[i + 4], ext[i + 5], ext[i + 6])
            IN /\ y \in Samples
               /\ audioCall.out[2 * i + 2] = y

\* C39: in every reachable state 1 <= mediaChunkCounter <= sequenceNumber:
\* the chunk counter advances only together with the sequence counter, and
\* the two are reset together.
ChunkCounterWithinSequence ==
  /\ 1 <= clientState.mediaChunkCounter
  /\ clientState.mediaChunkCounter <= clientState.sequenceNumber

\* after a stop reset both counters, a pipeline that completed advanced the
\* chunk counter together with the sequence counter
ChunkCounterWithinSequenceWitness ==
  /\ afterStop # "none"
  /\ clientState.mediaChunkCounter = 2
  /\ clientState.sequenceNumber = 2

====
